---- MODULE Spec2Model ----
(***************************************************************************)
(* State-machine model of rl/ppo/ppo_trainer.py: the PPO training loop     *)
(* (PPOTrainer.train, _collect_rollout_step, _update_agent) and the three  *)
(* evaluation loops of PPOTrainer.eval (E2E, HYBRID, OBCOV).               *)
(*                                                                         *)
(* The vectorized environment and the policy are external collaborators:   *)
(* what they return is drawn nondeterministically from small sets.         *)
(***************************************************************************)
EXTENDS Integers, Sequences, FiniteSets, TLC

(***************************************************************************)
(* Bounds of the exploration                                               *)
(***************************************************************************)
\* vectorized steps explored in one run of a variant's loop
MaxStepsE2E == 3
MaxStepsHYBRID == 2
MaxStepsOBCOV == 2
\* vectorized steps explored in a HYBRID run against a barren environment
\* (no reward is ever returned and every scripted take fails), and the
\* episodes such an environment ends
MaxStepsBarren == 6
MaxDonesBarren == 1
\* largest len(test_episodes) explored
MaxTestEpisodes == 1
\* largest config.NUM_UPDATES, ppo_cfg.num_steps,
\* config.CHECKPOINT_INTERVAL and ppo_cfg.reward_window_size explored
MaxUpdates == 2
MaxNumSteps == 2
MaxCheckpointInterval == 2
MaxWindowSize == 2
\* environment steps explored in one run of train()
MaxTrainSteps == 3
\* largest number an info field holds
MaxMetric == 2
\* environment steps explored in one run of train() against an environment
\* that reports metrics
MaxMetricSteps == 2

(***************************************************************************)
(* Values exchanged with the collaborators                                 *)
(***************************************************************************)
\* action indices the policy may sample (5 is "take" in the E2E table and
\* "open" in the HYBRID/OBCOV tables; 7 is "open" in the E2E table only)
PolicyActions == {0, 5, 7}
\* rewards an environment step may return: 0 and the values the block
\* compares rewards[0] with
RewardsOf(v) == IF v = "E2E" THEN {0, 1, 2, 5} ELSE {0, 1}
\* kinds of environment explored
EnvKinds == {"responsive", "barren"}
\* values of infos[0]["action"]
InfoActions == {"forward", "open"}

\* evaluation runs with one process: actions.item() needs a single element
NUM_PROCESSES == 1
EvalEnvs == 0 .. (NUM_PROCESSES - 1)

\* training runs with envs.num_envs parallel environments
NumEnvs == 2
TrainEnvs == 0 .. (NumEnvs - 1)
\* rewards a training environment may return
TrainRewards == {1, 2}
\* kinds of training environment explored: a varied one returns any reward
\* and any done flag, a plain one reward 1 and no done
TrainEnvKinds == {"varied", "plain", "instrumented"}
\* config.LOAD: no path, a path with no file, a path to a checkpoint file
LoadValues == {"none", "missing", "present"}

VARIABLES
    \* ---- module-level mode selectors and configuration
    selectors,                   \* those of E2E, HYBRID, OBCOV read as true
    TEST_EPISODE_COUNT,          \* config.ENV.TEST_EPISODE_COUNT
    \* ---- control
    pc,                          \* position in eval()/train()
    variant,                     \* block of eval() whose loop is set up
    error,                       \* exception that ended the run, or "none"
    \* ---- locals of eval()
    stats_episodes,
    step_count,
    action_list, observation_list, metadata_list,
    obj_cov_step, obj_pick_step,
    prev_obs,
    last_five_actions,
    info,
    current_episode_reward,
    current_episodes,
    observations, rewards, dones,
    actions,                     \* actions[0].item() of the current iteration
    infos,                       \* infos[0]: its "action" and "success"
    \* ---- the environment collaborator and the file system, as seen by eval()
    envKind,                     \* kind of environment constructed
    num_envs,                    \* envs.num_envs
    envEpisode,                  \* episode env 0 is in
    calls,                       \* calls issued in the current iteration
    resets,                      \* envs.reset() calls
    closes,                      \* envs.close() calls
    artifacts,                   \* pickle files written, in order
    \* ---- what the collaborators did, recorded for the properties
    first,                       \* reward and done of the iteration's first step
    actOk,                       \* success of the scripted open and take
    reStep,                      \* action, reward and done of a second step
    vecSteps,                    \* envs.step() calls of the run
    lastReported,                \* (action, success) of the previous step
    runLength,                   \* most recent steps reporting the same pair
    \* ---- configuration read by train() and eval()
    LOAD,                        \* config.LOAD
    \* ---- configuration read by train()
    NUM_UPDATES, num_steps, CHECKPOINT_INTERVAL,
    use_linear_lr_decay, use_linear_clip_decay, reward_window_size,
    trainEnvKind,                \* kind of environment constructed
    \* ---- locals of train()
    update,                      \* loop variable of `for update in range(...)`
    step,                        \* loop variable of `for step in range(...)`
    count_steps, count_checkpoints,
    running_episode_stats,
    rollouts_step,               \* rollouts.step
    lr_epoch,                    \* lr_scheduler.last_epoch
    lr_factor,                   \* optimizer lr / ppo_cfg.lr, a fraction
    clip_param,                  \* agent.clip_param / ppo_cfg.clip_param
    window_episode_stats,        \* the deque of snapshots
    deltas,                      \* deltas["reward"], deltas["count"]
    \* ---- what train() did, recorded for the properties
    agentUpdates,                \* agent.update() calls
    checkpoints,                 \* checkpoint files written, in order
    sinceDone,                   \* per env, the rewards since its previous done
    step_infos,                  \* per env, the info of the latest step
    trainCalls,                  \* calls made in the current update, in order
    snapshots,                   \* every snapshot pushed, in order
    \* ---- one call of _extract_scalars_from_info
    extract_info,                \* its argument `info`
    extract_result               \* the dictionary it returned

\* variables of both eval() and train()
sharedVars == <<pc, error, current_episode_reward, rewards, dones, num_envs,
                resets, closes, vecSteps>>

\* variables only eval() uses
evalVars == <<selectors, TEST_EPISODE_COUNT, envKind, variant,
              stats_episodes, step_count, action_list, observation_list,
              metadata_list, obj_cov_step, obj_pick_step, prev_obs,
              last_five_actions, info, current_episodes, observations,
              envEpisode, calls, artifacts, actions, infos, first, actOk,
              reStep,
              lastReported, runLength>>

\* variables only train() uses
trainVars == <<NUM_UPDATES, num_steps, CHECKPOINT_INTERVAL, update, step,
               count_steps, count_checkpoints, running_episode_stats,
               rollouts_step, agentUpdates, checkpoints, sinceDone,
               lr_epoch, lr_factor, clip_param, window_episode_stats, deltas,
               trainCalls, snapshots, step_infos>>

\* configuration that no step changes
options == <<LOAD, use_linear_lr_decay, use_linear_clip_decay,
             reward_window_size, trainEnvKind>>

\* variables of a call of _extract_scalars_from_info on its own
extractVars == <<extract_info, extract_result>>

vars == <<sharedVars, evalVars, trainVars, options, extractVars>>

(***************************************************************************)
(* Tokens naming observations, metadata and info dicts                     *)
(***************************************************************************)
\* a frame or a metadata blob: where it came from and which field it is
Field(src, at, key) == [src |-> src, at |-> at, key |-> key]
NoneObs == Field("None", 0, "obs")
\* observation returned for env 0 by the vectorized step taken at index k
StepObs(k) == Field("step", k, "obs")
\* observation returned by the second step of an OBCOV iteration
ReStepObs(k) == Field("restep", k, "obs")
\* an info dict: infos[0] of the step at index k, or the result of the
\* envs.act(name) call made in the iteration with index k
Info(src, at) == [src |-> src, at |-> at]
\* the local `info` before its first assignment
Unbound == Info("unbound", 0)
StepInfo(k) == Info("step", k)
ActInfo(name, k) == Info(name, k)
\* [x["prev_metadata"], x["next_metadata"]]
MetadataPair(x) ==
    <<Field(x.src, x.at, "prev_metadata"), Field(x.src, x.at, "next_metadata")>>
\* [x["prev_obs"]["rgb"], x["next_obs"]["rgb"]]
ObsPairOf(x) ==
    <<Field(x.src, x.at, "prev_obs"), Field(x.src, x.at, "next_obs")>>

(***************************************************************************)
(* Pure helpers                                                            *)
(***************************************************************************)
act_to_idx_E2E ==
    [forward |-> 0, up |-> 1, down |-> 2, tright |-> 3, tleft |-> 4,
     take |-> 5, put |-> 6, open |-> 7, close |-> 8]
act_to_idx_HYBRID ==
    [forward |-> 0, up |-> 1, down |-> 2, tright |-> 3, tleft |-> 4,
     open |-> 5, close |-> 6]

\* PPOTrainer.get_action: the action whose index is `index`, else None
get_action(index, act_to_idx) ==
    IF \E a \in DOMAIN act_to_idx : act_to_idx[a] = index
    THEN CHOOSE a \in DOMAIN act_to_idx : act_to_idx[a] = index
    ELSE "None"

\* deque(maxlen=5).append
DequeAppend(dq, x) ==
    IF Len(dq) < 5 THEN Append(dq, x) ELSE Append(Tail(dq), x)

\* n copies of x
Repeat(x, n) == [i \in 1 .. n |-> x]

\* values of the per-iteration locals outside an iteration
NoInfos == [action |-> "none", success |-> FALSE]
NoFirst == [reward |-> 0, done |-> FALSE]
NoReStep == [action |-> -1, reward |-> 0, done |-> FALSE]
NoActOk == [open |-> FALSE, take |-> FALSE]

(***************************************************************************)
(* eval(): entering a variant's block                                      *)
(***************************************************************************)
\* PPOTrainer.load_checkpoint is torch.load(checkpoint_path, ...): it raises
\* when there is no path or no file at the path
load_checkpoint_raises(path) == path # "present"
load_checkpoint_error(path) ==
    IF path = "none" THEN "AttributeError" ELSE "FileNotFoundError"

\* the locals a block initialises before its loop (OBCOV leaves prev_obs
\* alone; `info` is never initialised)
SetupLocals(v) ==
    /\ stats_episodes' = {}
    /\ step_count' = 0
    /\ action_list' = <<>>
    /\ observation_list' = <<>>
    /\ metadata_list' = <<>>
    /\ obj_cov_step' = <<>>
    /\ obj_pick_step' = <<>>
    /\ last_five_actions' = <<>>
    /\ prev_obs' = IF v = "OBCOV" THEN prev_obs ELSE NoneObs
    /\ current_episode_reward' = [i \in EvalEnvs |-> 0]

\* `if <flag>:` and, when the flag is set, everything up to the while loop.
\* The selectors are module constants that eval() reads once each: their
\* value is fixed where it is read, and so are the length of the dataset
\* and the environment that construct_envs returns.
EnterBlock(v, here, next) ==
    /\ pc = here
    /\ \E flag \in BOOLEAN :
       IF flag /\ load_checkpoint_raises(LOAD)
       THEN /\ pc' = "raised"
            /\ error' = load_checkpoint_error(LOAD)
            /\ selectors' = selectors \cup {v}
            /\ TEST_EPISODE_COUNT' \in 0 .. MaxTestEpisodes
            /\ UNCHANGED <<variant, envKind, stats_episodes, step_count,
                           action_list, observation_list, metadata_list,
                           obj_cov_step, obj_pick_step, last_five_actions,
                           prev_obs, current_episode_reward, num_envs,
                           envEpisode, observations, resets, calls, rewards,
                           dones, current_episodes, info, vecSteps,
                           lastReported, runLength>>
       ELSE IF flag
       THEN /\ pc' = "while"
            /\ UNCHANGED error
            /\ variant' = v
            /\ selectors' = selectors \cup {v}
            /\ TEST_EPISODE_COUNT' \in 0 .. MaxTestEpisodes
            /\ envKind' \in IF v = "HYBRID" THEN EnvKinds ELSE {"responsive"}
            /\ SetupLocals(v)
            /\ num_envs' = NUM_PROCESSES
            /\ envEpisode' = 0
            /\ observations' = StepObs(0)
            /\ resets' = resets + 1
            /\ calls' = <<"reset">>
            /\ vecSteps' = 0
            /\ lastReported' = NoInfos
            /\ runLength' = 0
            /\ UNCHANGED <<rewards, dones, current_episodes, info>>
       ELSE /\ pc' = next
            /\ UNCHANGED error
            /\ UNCHANGED <<variant, selectors, TEST_EPISODE_COUNT, envKind,
                           stats_episodes, step_count, action_list,
                           observation_list, metadata_list, obj_cov_step,
                           obj_pick_step, last_five_actions, prev_obs,
                           current_episode_reward, num_envs, envEpisode,
                           observations, resets, calls, rewards, dones,
                           current_episodes, info, vecSteps, lastReported,
                           runLength>>
    /\ UNCHANGED <<closes, artifacts, actions, infos, first, actOk, reStep>>
    /\ UNCHANGED <<trainVars, options, extractVars>>

If_E2E == EnterBlock("E2E", "if_E2E", "if_HYBRID")
If_HYBRID == EnterBlock("HYBRID", "if_HYBRID", "if_OBCOV")
If_OBCOV == EnterBlock("OBCOV", "if_OBCOV", "returned")

\* the while condition of the three loops
LoopCondition ==
    Cardinality(stats_episodes) < TEST_EPISODE_COUNT /\ num_envs > 0

(***************************************************************************)
(* eval(): the record being accumulated for the current episode            *)
(***************************************************************************)
CurrentLists ==
    [action_list |-> action_list, observation_list |-> observation_list,
     metadata_list |-> metadata_list, obj_cov_step |-> obj_cov_step,
     obj_pick_step |-> obj_pick_step]

EmptyLists ==
    [action_list |-> <<>>, observation_list |-> <<>>, metadata_list |-> <<>>,
     obj_cov_step |-> <<>>, obj_pick_step |-> <<>>]

SetLists(L) ==
    /\ action_list' = L.action_list
    /\ observation_list' = L.observation_list
    /\ metadata_list' = L.metadata_list
    /\ obj_cov_step' = L.obj_cov_step
    /\ obj_pick_step' = L.obj_pick_step

\* variant of AppendCov: the coverage index is not logged
AppendCov_Skips(L, k) == L

\* obj_cov_step.append(k) / obj_pick_step.append(k)
AppendCov(L, k) == [L EXCEPT !.obj_cov_step = Append(@, k)]
AppendPick(L, k) == [L EXCEPT !.obj_pick_step = Append(@, k)]
\* action_list.append(name); observation_list.append(pair)
AppendAction(L, name, obsPair) ==
    [L EXCEPT !.action_list = Append(@, name),
              !.observation_list = Append(@, obsPair)]
\* variant of AppendMetadata: the metadata pair is not logged
AppendMetadata_Skips(L, metaPair) == L

\* metadata_list.append(pair)
AppendMetadata(L, metaPair) == [L EXCEPT !.metadata_list = Append(@, metaPair)]

\* what one envs.step(...) leaves in the locals for env 0
StepResult(k, obs, r, d) ==
    /\ step_count' = k
    /\ observations' = obs
    /\ rewards' = [i \in EvalEnvs |-> r]
    /\ dones' = [i \in EvalEnvs |-> d]

(***************************************************************************)
(* Variant A (E2E): one loop iteration up to the flush test                *)
(***************************************************************************)
\* variant of E2E_OpenEvent: the success flag is not consulted
E2E_OpenEvent_IgnoresSuccess(done, success, action, reward) ==
    ~done /\ reward = 1 /\ action = "open"

\* `if not dones[0]: if infos[0]["success"]: if rewards[0] == 1 and action == "open"`
E2E_OpenEvent(done, success, action, reward) ==
    ~done /\ success /\ reward = 1 /\ action = "open"

\* `... if (rewards[0] == 2 or rewards[0] == 5) and action == "take"`
E2E_TakeEvent(done, success, action, reward) ==
    ~done /\ success /\ (reward = 2 \/ reward = 5) /\ action = "take"

\* variant of E2E_ExtraCalls: the HYBRID probe copied into the E2E loop
E2E_ExtraCalls_Probe == <<"take", "put", "close">>

\* the env calls of an E2E iteration after the vectorized step
E2E_ExtraCalls == <<>>

E2E_Iteration ==
    /\ pc = "while" /\ variant = "E2E"
    /\ LoopCondition
    /\ step_count < MaxStepsE2E
    /\ \E a \in PolicyActions, r \in RewardsOf("E2E"), d \in BOOLEAN,
          s \in BOOLEAN :
        LET k == step_count + 1
            obs == StepObs(k)
            action == get_action(a, act_to_idx_E2E)
            L0 == CurrentLists
            L1 == IF E2E_OpenEvent(d, s, action, r)
                  THEN AppendMetadata(
                           AppendAction(AppendCov(L0, k), "open",
                                        <<prev_obs, obs>>),
                           MetadataPair(StepInfo(k)))
                  ELSE L0
            L2 == IF E2E_TakeEvent(d, s, action, r)
                  THEN AppendMetadata(
                           AppendAction(
                               IF action = "take" THEN AppendPick(L1, k)
                                                  ELSE L1,
                               "take", <<prev_obs, obs>>),
                           MetadataPair(StepInfo(k)))
                  ELSE L1
        IN  /\ current_episodes' = envEpisode
            /\ StepResult(k, obs, r, d)
            /\ envEpisode' = IF d THEN envEpisode + 1 ELSE envEpisode
            /\ SetLists(L2)
            /\ calls' = <<"step">> \o E2E_ExtraCalls
            /\ actions' = a
            /\ infos' = [action |-> "none", success |-> s]
            /\ first' = [reward |-> r, done |-> d]
    /\ vecSteps' = vecSteps + 1
    /\ pc' = "flush"
    /\ UNCHANGED <<selectors, TEST_EPISODE_COUNT, envKind, variant, error,
                   stats_episodes, prev_obs, last_five_actions, info,
                   current_episode_reward, num_envs, resets, closes,
                   artifacts, actOk, reStep, lastReported, runLength>>
    /\ UNCHANGED <<trainVars, options, extractVars>>

(***************************************************************************)
(* Variant B (HYBRID): one loop iteration up to the flush test             *)
(***************************************************************************)
\* variant of Stalled: the length of the window is not tested
Stalled_NoLengthTest(dq) == \A i \in 1 .. Len(dq) : dq[i] = dq[1]

\* `len(last_five_actions) == 5 and all(x == last_five_actions[0] ...)`
Stalled(dq) == Len(dq) = 5 /\ \A i \in 1 .. Len(dq) : dq[i] = dq[1]

\* the act calls of the stall recovery
RecoveryCalls(times) == Repeat("tright", times) \o Repeat("forward", 4)

\* `if not dones[0]: if infos[0]["success"]:`
HYBRID_Probe(done, success) == ~done /\ success

\* `if get_action(...) == "open": if rewards[0] == 1:`
HYBRID_OpenEvent(action, reward) == action = "open" /\ reward = 1

\* variant of HYBRID_AfterTake: a failed take ends the probe
HYBRID_AfterTake_AbortOnFailure(takeOk) ==
    IF takeOk THEN <<"put", "close">> ELSE <<>>

\* the scripted calls of the probe after the take, given the take's outcome
HYBRID_AfterTake(takeOk) == <<"put", "close">>

\* variant of HYBRID_ActCalls: the probe runs ahead of the stall recovery
HYBRID_ActCalls_ProbeFirst(recovery, probeCalls) == probeCalls \o recovery

\* the scripted calls of an iteration in the order the block issues them:
\* the stall recovery of lines 884-892, then the probe of lines 895-928
HYBRID_ActCalls(recovery, probeCalls) == recovery \o probeCalls

HYBRID_Iteration ==
    /\ pc = "while" /\ variant = "HYBRID"
    /\ LoopCondition
    /\ step_count < (IF envKind = "barren" THEN MaxStepsBarren
                                            ELSE MaxStepsHYBRID)
    /\ \E a \in PolicyActions, r \in RewardsOf("HYBRID"), d \in BOOLEAN,
          s \in BOOLEAN, nm \in InfoActions, times \in 1 .. 3,
          takeOk \in BOOLEAN :
        LET k == step_count + 1
            obs == StepObs(k)
            window == DequeAppend(last_five_actions, <<nm, s>>)
            recovery == IF Stalled(window) THEN RecoveryCalls(times) ELSE <<>>
            probe == HYBRID_Probe(d, s)
            openEv == probe /\ HYBRID_OpenEvent(
                          get_action(a, act_to_idx_HYBRID), r)
            \* metadata_list.append([info["prev_metadata"], ...]) reads the
            \* local `info`, which only a scripted act call assigns
            raises == openEv /\ info = Unbound
            L0 == CurrentLists
            L1 == IF openEv
                  THEN AppendAction(AppendCov(L0, k), "open", <<prev_obs, obs>>)
                  ELSE L0
            L2 == IF openEv /\ ~raises
                  THEN AppendMetadata(L1, MetadataPair(info))
                  ELSE L1
            take == ActInfo("take", k)
            L3 == IF probe /\ ~raises /\ takeOk
                  THEN AppendMetadata(
                           AppendAction(AppendPick(L2, k), "take",
                                        ObsPairOf(take)),
                           MetadataPair(take))
                  ELSE L2
        IN  /\ (envKind = "barren" =>
                   /\ a = 0 /\ r = 0 /\ ~takeOk
                   /\ (d => envEpisode < MaxDonesBarren))
            /\ (Stalled(window) \/ times = 1)
            /\ ((probe /\ ~raises) \/ ~takeOk)
            /\ current_episodes' = envEpisode
            /\ StepResult(k, obs, r, d)
            /\ envEpisode' = IF d THEN envEpisode + 1 ELSE envEpisode
            /\ last_five_actions' = window
            /\ SetLists(L3)
            /\ calls' = <<"step">> \o
                        HYBRID_ActCalls(
                            recovery,
                            IF probe /\ ~raises
                            THEN <<"take">> \o HYBRID_AfterTake(takeOk)
                            ELSE <<>>)
            /\ info' = IF probe /\ ~raises THEN ActInfo("put", k) ELSE info
            /\ pc' = IF raises THEN "raised" ELSE "flush"
            /\ error' = IF raises THEN "UnboundLocalError" ELSE error
            /\ actions' = a
            /\ infos' = [action |-> nm, success |-> s]
            /\ first' = [reward |-> r, done |-> d]
            /\ actOk' = [open |-> FALSE, take |-> takeOk]
            /\ lastReported' = [action |-> nm, success |-> s]
            /\ runLength' = IF lastReported = [action |-> nm, success |-> s]
                            THEN runLength + 1 ELSE 1
    /\ vecSteps' = vecSteps + 1
    /\ UNCHANGED <<selectors, TEST_EPISODE_COUNT, envKind, variant,
                   stats_episodes, prev_obs, current_episode_reward, num_envs,
                   resets, closes, artifacts, reStep>>
    /\ UNCHANGED <<trainVars, options, extractVars>>

(***************************************************************************)
(* Variant C (OBCOV): one loop iteration up to the flush test              *)
(***************************************************************************)
\* `if not dones[0]: if rewards[0] == 1:`
OBCOV_Probe(done, reward) == ~done /\ reward = 1

\* variant of OBCOV_ProbeCalls: the probe gives up when open fails
OBCOV_ProbeCalls_StopOnFailure(openOk, takeOk) ==
    IF openOk THEN <<"open", "take", "put", "close">> ELSE <<"open">>

\* the scripted calls of the probe, given the outcome of open and of take
OBCOV_ProbeCalls(openOk, takeOk) == <<"open", "take", "put", "close">>

\* variant of OBCOV_Results: the results of the first step are kept
OBCOV_Results_KeepsFirst(firstStep, secondStep) == firstStep

\* after a probe, the results the rest of the iteration works with: line 1224
\* steps again and the assignments that follow overwrite those of the first
OBCOV_Results(firstStep, secondStep) == secondStep

\* the action vector handed to the second envs.step, given the sampled one
OBCOV_ReStepActions(sampled) == sampled

OBCOV_Iteration ==
    /\ pc = "while" /\ variant = "OBCOV"
    /\ LoopCondition
    /\ step_count < MaxStepsOBCOV
    /\ \E a \in PolicyActions, r \in RewardsOf("OBCOV"), d \in BOOLEAN,
          openOk \in BOOLEAN, takeOk \in BOOLEAN,
          r2 \in RewardsOf("OBCOV"), d2 \in BOOLEAN :
        LET k == step_count + 1
            probe == OBCOV_Probe(d, r)
            open == ActInfo("open", k)
            take == ActInfo("take", k)
            L0 == CurrentLists
            L1 == IF probe THEN AppendCov(L0, k) ELSE L0
            L2 == IF probe /\ openOk
                  THEN AppendMetadata(
                           AppendAction(L1, "open", ObsPairOf(open)),
                           MetadataPair(open))
                  ELSE L1
            L3 == IF probe /\ takeOk
                  THEN AppendMetadata(
                           AppendAction(AppendPick(L2, k), "take",
                                        ObsPairOf(take)),
                           MetadataPair(take))
                  ELSE L2
        IN  /\ (probe \/ (~openOk /\ ~takeOk /\ r2 = r /\ d2 = d))
            /\ current_episodes' = envEpisode
            /\ SetLists(L3)
            /\ info' = IF probe THEN take ELSE info
            \* the probe ends with a second envs.step of the same actions,
            \* whose results replace those of the first
            /\ IF probe
               THEN /\ LET res == OBCOV_Results(
                                      [obs |-> StepObs(k), reward |-> r,
                                       done |-> d],
                                      [obs |-> ReStepObs(k), reward |-> r2,
                                       done |-> d2])
                       IN  StepResult(k, res.obs, res.reward, res.done)
                    /\ reStep' = [action |-> OBCOV_ReStepActions(a),
                                  reward |-> r2, done |-> d2]
                    /\ envEpisode' = IF d2 THEN envEpisode + 1 ELSE envEpisode
                    /\ calls' = <<"step">> \o OBCOV_ProbeCalls(openOk, takeOk)
                                \o <<"step">>
                    /\ vecSteps' = vecSteps + 2
               ELSE /\ StepResult(k, StepObs(k), r, d)
                    /\ reStep' = NoReStep
                    /\ envEpisode' = IF d THEN envEpisode + 1 ELSE envEpisode
                    /\ calls' = <<"step">>
                    /\ vecSteps' = vecSteps + 1
            /\ actions' = a
            /\ first' = [reward |-> r, done |-> d]
            /\ actOk' = [open |-> openOk, take |-> takeOk]
    /\ pc' = "flush"
    \* last_five_actions and last_five_success are appended to in this block
    \* and never read: the two dead stores are left out
    /\ UNCHANGED <<selectors, TEST_EPISODE_COUNT, envKind, variant, error,
                   stats_episodes, prev_obs, last_five_actions,
                   current_episode_reward, num_envs, resets, closes,
                   artifacts, infos, lastReported, runLength>>
    /\ UNCHANGED <<trainVars, options, extractVars>>

(***************************************************************************)
(* eval(): the rest of an iteration, shared by the three loops             *)
(***************************************************************************)
\* directory the artifact is written to
RolloutDir(v) ==
    IF v = "E2E" THEN "E2E_rollouts/"
    ELSE IF v = "HYBRID" THEN "Hybrid_rollouts/" ELSE ""

\* data_to_save, under f"{dir}{scene}_{episode}.pkl"
Artifact(v, episode, L) ==
    [dir |-> RolloutDir(v), episode |-> episode, data |-> L]

\* variant of AfterFlush: the lists are not cleared after the dump
AfterFlush_KeepsLists(L) == L

\* the lists after the `if dones[0]:` block
AfterFlush(L) == EmptyLists

\* variant of envs_to_pause: environment 0 is paused at every iteration
envs_to_pause_First == <<0>>

\* envs_to_pause: the loop that fills it is commented out
envs_to_pause == <<>>

\* BaseRLTrainer._pause_envs on envs.num_envs
PauseEnvs(n, toPause) == n - Len(toPause)

\* variant of StepCountAfterEpisode: the counter restarts with the episode
StepCountAfterEpisode_Restarts(count) == 0

\* step_count after the `if dones[0]:` block, which does not assign it
StepCountAfterEpisode(count) == count

EndOfIteration ==
    /\ pc = "flush"
    /\ step_count' = IF dones[0] THEN StepCountAfterEpisode(step_count)
                                 ELSE step_count
    /\ IF dones[0]
       THEN /\ artifacts' = Append(artifacts,
                                   Artifact(variant, current_episodes,
                                            CurrentLists))
            /\ SetLists(AfterFlush(CurrentLists))
            /\ calls' = Append(calls, "write")
       ELSE UNCHANGED <<artifacts, action_list, observation_list,
                        metadata_list, obj_cov_step, obj_pick_step, calls>>
    /\ current_episode_reward' =
           [i \in EvalEnvs |-> current_episode_reward[i] + rewards[i]]
    /\ prev_obs' = observations
    /\ num_envs' = PauseEnvs(num_envs, envs_to_pause)
    /\ pc' = "while"
    \* actions and infos are not read again before the next step assigns them
    /\ actions' = -1
    /\ infos' = NoInfos
    /\ first' = NoFirst
    /\ actOk' = NoActOk
    /\ reStep' = NoReStep
    /\ UNCHANGED <<selectors, TEST_EPISODE_COUNT, envKind, variant, error,
                   stats_episodes, last_five_actions, info,
                   current_episodes, observations, rewards, dones,
                   envEpisode, resets, closes, vecSteps, lastReported,
                   runLength>>
    /\ UNCHANGED <<trainVars, options, extractVars>>

\* after the loop: the aggregate mean, then envs.close()
Aggregate ==
    /\ pc = "while"
    /\ ~LoopCondition
    /\ LET num_episodes == Cardinality(stats_episodes)
       IN  IF num_episodes = 0
           THEN /\ error' = "ZeroDivisionError"
                /\ pc' = "raised"
                /\ UNCHANGED closes
           ELSE /\ closes' = closes + 1
                /\ pc' = IF variant = "E2E" THEN "if_HYBRID"
                         ELSE IF variant = "HYBRID" THEN "if_OBCOV"
                         ELSE "returned"
                /\ UNCHANGED error
    /\ UNCHANGED <<selectors, TEST_EPISODE_COUNT, envKind, variant,
                   stats_episodes, step_count, action_list, observation_list,
                   metadata_list, obj_cov_step, obj_pick_step, prev_obs,
                   last_five_actions, info, current_episode_reward,
                   current_episodes, observations, rewards, dones, num_envs,
                   envEpisode, calls, resets, artifacts, actions, infos,
                   first, actOk, reStep, vecSteps, lastReported, runLength>>
    /\ UNCHANGED <<trainVars, options, extractVars>>

(***************************************************************************)
(* _extract_scalars_from_info                                              *)
(***************************************************************************)
\* An info dictionary is the sequence of its items in iteration order; an
\* item is its key, the kind of its value, the number when the value is a
\* number, and the items of the value when it is a dictionary.
Item(k, kind, n) == [key |-> k, kind |-> kind, num |-> n, sub |-> <<>>]
DictItem(k, items) == [key |-> k, kind |-> "dict", num |-> 0, sub |-> items]

METRICS_BLACKLIST == {"top_down_map", "collisions.is_collision"}

\* np.size(v): 1 for a number, a string and None, the number of elements
\* for a sequence
np_size(item) ==
    IF item.kind = "empty" THEN 0
    ELSE IF item.kind = "several" THEN 2
    ELSE 1

\* float(v) of a value that is neither a dictionary nor a string and has
\* np.size 1: the number itself; float(None) raises TypeError
float_raises(item) == item.kind # "number"
float(item) == item.num

\* result[k] = v on a dictionary held as a set of <<key, value>> pairs
SetItem(result, k, v) == {q \in result : q[1] # k} \cup {<<k, v>>}

RECURSIVE UpdateItems(_, _)
\* result.update(items)
UpdateItems(result, items) ==
    IF items = {} THEN result
    ELSE LET q == CHOOSE x \in items : TRUE
         IN  UpdateItems(SetItem(result, q[1], q[2]), items \ {q})

RECURSIVE ExtractItems(_, _)
\* the loop of _extract_scalars_from_info over the first n items of info
ExtractItems(info_, n) ==
    IF n = 0 THEN [error |-> "none", result |-> {}]
    ELSE LET before == ExtractItems(info_, n - 1)
             item == info_[n]
             k == item.key
         IN  IF before.error # "none" THEN before
             ELSE IF k \in METRICS_BLACKLIST THEN before
             ELSE IF item.kind = "dict"
             THEN LET inner == ExtractItems(item.sub, Len(item.sub))
                  IN  IF inner.error # "none"
                      THEN [error |-> inner.error, result |-> before.result]
                      ELSE [error |-> "none",
                            result |->
                                UpdateItems(
                                    before.result,
                                    {<<k \o "." \o q[1], q[2]>> :
                                        q \in {x \in inner.result :
                                                  (k \o "." \o x[1])
                                                      \notin METRICS_BLACKLIST}})]
             ELSE IF np_size(item) = 1 /\ item.kind # "string"
             THEN IF float_raises(item)
                  THEN [error |-> "TypeError", result |-> before.result]
                  ELSE [error |-> "none",
                        result |-> SetItem(before.result, k, float(item))]
             ELSE before

extract_scalars_from_info(info_) == ExtractItems(info_, Len(info_))

\* the values a field of an info dictionary takes: a number, a string, a
\* sequence of several elements, an empty sequence, None
FieldValues ==
    {<<"number", n>> : n \in 1 .. MaxMetric}
        \cup {<<"string", 0>>, <<"several", 0>>, <<"empty", 0>>, <<"None", 0>>}

\* the info dictionaries handed to the function
ExtractInputs ==
    {<<>>}
    \cup {<<Item("distance", v[1], v[2]),
            Item("top_down_map", t[1], t[2]),
            DictItem("collisions",
                     <<Item("count", c[1], c[2]),
                       Item("is_collision", b[1], b[2])>>)>> :
             v \in FieldValues, c \in FieldValues,
             t \in {<<"number", 1>>, <<"several", 0>>},
             b \in {<<"number", 1>>, <<"several", 0>>}}
    \cup {<<DictItem("agent",
                     <<Item("top_down_map", t[1], t[2]),
                       DictItem("collisions",
                                <<Item("is_collision", "number", 1),
                                  Item("count", c[1], c[2])>>)>>),
            Item("scene", "string", 0)>> :
             c \in FieldValues, t \in {<<"number", 1>>, <<"several", 0>>}}

\* no call of the function is under way
ExtractIdle ==
    /\ extract_info = <<>>
    /\ extract_result = {}

\* one call: it returns the dictionary or raises
ExtractScalars ==
    /\ pc = "extract"
    /\ LET out == extract_scalars_from_info(extract_info)
       IN  /\ error' = out.error
           /\ pc' = IF out.error = "none" THEN "returned" ELSE "raised"
           /\ extract_result' = IF out.error = "none" THEN out.result
                                                      ELSE extract_result
    /\ UNCHANGED <<current_episode_reward, rewards, dones, num_envs, resets,
                   closes, vecSteps, extract_info>>
    /\ UNCHANGED <<evalVars, trainVars, options>>

(***************************************************************************)
(* Specification of eval()                                                 *)
(***************************************************************************)
\* the locals of eval() before eval() is entered
EvalLocalsInit ==
    /\ selectors = {}
    /\ TEST_EPISODE_COUNT = 0
    /\ envKind = "responsive"
    /\ variant = "none"
    /\ stats_episodes = {}
    /\ step_count = 0
    /\ action_list = <<>> /\ observation_list = <<>> /\ metadata_list = <<>>
    /\ obj_cov_step = <<>> /\ obj_pick_step = <<>>
    /\ prev_obs = NoneObs
    /\ last_five_actions = <<>>
    /\ info = Unbound
    /\ current_episodes = 0
    /\ observations = NoneObs
    /\ envEpisode = 0
    /\ calls = <<>>
    /\ artifacts = <<>>
    /\ actions = -1
    /\ infos = NoInfos
    /\ first = NoFirst
    /\ actOk = NoActOk
    /\ reStep = NoReStep
    /\ lastReported = NoInfos
    /\ runLength = 0

\* the locals of train() before train() is entered
TrainLocalsInit ==
    /\ update = 0
    /\ step = 0
    /\ count_steps = 0
    /\ count_checkpoints = 0
    /\ running_episode_stats =
           [count |-> [i \in TrainEnvs |-> 0],
            reward |-> [i \in TrainEnvs |-> 0]]
    /\ rollouts_step = 0
    /\ agentUpdates = 0
    /\ checkpoints = <<>>
    /\ sinceDone = [i \in TrainEnvs |-> <<>>]
    /\ step_infos = [i \in TrainEnvs |-> <<>>]
    /\ lr_epoch = 0
    /\ lr_factor = [num |-> 1, den |-> 1]
    /\ clip_param = [num |-> 1, den |-> 1]
    /\ window_episode_stats = <<>>
    /\ deltas = [reward |-> 0, count |-> 1]
    /\ trainCalls = <<>>
    /\ snapshots = <<>>

EvalInit ==
    /\ pc = "if_E2E"
    /\ error = "none"
    /\ current_episode_reward = [i \in EvalEnvs |-> 0]
    /\ rewards = [i \in EvalEnvs |-> 0]
    /\ dones = [i \in EvalEnvs |-> FALSE]
    /\ num_envs = 0
    /\ resets = 0
    /\ closes = 0
    /\ vecSteps = 0
    /\ EvalLocalsInit
    /\ TrainLocalsInit
    /\ ExtractIdle
    /\ NUM_UPDATES = 0 /\ num_steps = 1 /\ CHECKPOINT_INTERVAL = 1
    /\ use_linear_lr_decay = FALSE /\ use_linear_clip_decay = FALSE
    /\ reward_window_size = 1
    /\ trainEnvKind = "plain"
    /\ LOAD \in LoadValues

EvalNext ==
    \/ If_E2E
    \/ If_HYBRID
    \/ If_OBCOV
    \/ E2E_Iteration
    \/ HYBRID_Iteration
    \/ OBCOV_Iteration
    \/ EndOfIteration
    \/ Aggregate

SpecEval == EvalInit /\ [][EvalNext]_vars

(***************************************************************************)
(* Specification of one call of _extract_scalars_from_info                 *)
(***************************************************************************)
ExtractInit ==
    /\ pc = "extract"
    /\ error = "none"
    /\ current_episode_reward = [i \in EvalEnvs |-> 0]
    /\ rewards = [i \in EvalEnvs |-> 0]
    /\ dones = [i \in EvalEnvs |-> FALSE]
    /\ num_envs = 0
    /\ resets = 0
    /\ closes = 0
    /\ vecSteps = 0
    /\ EvalLocalsInit
    /\ TrainLocalsInit
    /\ NUM_UPDATES = 0 /\ num_steps = 1 /\ CHECKPOINT_INTERVAL = 1
    /\ use_linear_lr_decay = FALSE /\ use_linear_clip_decay = FALSE
    /\ reward_window_size = 1
    /\ trainEnvKind = "plain"
    /\ LOAD = "none"
    /\ extract_info \in ExtractInputs
    /\ extract_result = {}

ExtractNext == ExtractScalars

SpecExtract == ExtractInit /\ [][ExtractNext]_vars

(***************************************************************************)
(* train()                                                                 *)
(***************************************************************************)
\* common.utils.linear_decay: 1 - epoch / total_num_updates, as a fraction
linear_decay(epoch, total_num_updates) ==
    [num |-> total_num_updates - epoch, den |-> total_num_updates]

\* the division of linear_decay raises ZeroDivisionError
linear_decay_raises(epoch, total_num_updates) == total_num_updates = 0

\* equality of fractions (denominators are positive)
FracEq(x, y) == x.num * y.den = y.num * x.den
One == [num |-> 1, den |-> 1]

\* `if self.config.LOAD is not None:` load_checkpoint(self.config.LOAD, ...)
Train_LoadRaises(path) == path # "none" /\ load_checkpoint_raises(path)

\* lr_scheduler.step(): the epoch the factor is evaluated for
LambdaLR_step(epoch) == epoch + 1

\* variant of ClipEpoch: the clip parameter is decayed one update ahead
ClipEpoch_Ahead(u) == u + 1

\* the epoch the clip factor of update u is evaluated for
ClipEpoch(u) == u

\* everything before the loop over updates. LambdaLR evaluates lr_lambda
\* for epoch 0 when it is constructed.
Train_Setup ==
    /\ pc = "train"
    /\ num_envs' = NumEnvs
    /\ IF Train_LoadRaises(LOAD)
       THEN /\ pc' = "raised"
            /\ error' = load_checkpoint_error(LOAD)
            /\ UNCHANGED <<resets, current_episode_reward,
                           running_episode_stats, count_steps,
                           count_checkpoints, rollouts_step, update,
                           window_episode_stats, lr_epoch, lr_factor>>
       ELSE /\ resets' = resets + 1
            /\ current_episode_reward' = [i \in TrainEnvs |-> 0]
            /\ running_episode_stats' =
                   [count |-> [i \in TrainEnvs |-> 0],
                    reward |-> [i \in TrainEnvs |-> 0]]
            /\ window_episode_stats' = <<>>
            /\ count_steps' = 0
            /\ count_checkpoints' = 0
            /\ rollouts_step' = 0
            /\ update' = 0
            /\ lr_epoch' = 0
            /\ IF linear_decay_raises(0, NUM_UPDATES)
               THEN /\ pc' = "raised"
                    /\ error' = "ZeroDivisionError"
                    /\ UNCHANGED lr_factor
               ELSE /\ pc' = "for_update"
                    /\ lr_factor' = linear_decay(0, NUM_UPDATES)
                    /\ UNCHANGED error
    /\ UNCHANGED <<rewards, dones, closes, vecSteps, NUM_UPDATES, num_steps,
                   CHECKPOINT_INTERVAL, step, agentUpdates, checkpoints,
                   sinceDone, clip_param, deltas, trainCalls, snapshots,
                   step_infos>>
    /\ UNCHANGED <<evalVars, options, extractVars>>

\* `for update in range(self.config.NUM_UPDATES):` with the two decays at the
\* top of the body, and after the loop self.envs.close()
ForUpdate ==
    /\ pc = "for_update"
    /\ IF update < NUM_UPDATES
       THEN /\ pc' = "collect"
            /\ step' = 0
            /\ trainCalls' = <<>>
            /\ IF use_linear_lr_decay
               THEN /\ lr_epoch' = LambdaLR_step(lr_epoch)
                    /\ lr_factor' = linear_decay(lr_epoch', NUM_UPDATES)
               ELSE UNCHANGED <<lr_epoch, lr_factor>>
            /\ clip_param' = IF use_linear_clip_decay
                             THEN linear_decay(ClipEpoch(update), NUM_UPDATES)
                             ELSE clip_param
            /\ UNCHANGED closes
       ELSE /\ pc' = "returned"
            /\ closes' = closes + 1
            /\ UNCHANGED <<step, trainCalls, lr_epoch, lr_factor, clip_param>>
    /\ UNCHANGED <<error, current_episode_reward, rewards, dones, num_envs,
                   resets, vecSteps, NUM_UPDATES, num_steps,
                   CHECKPOINT_INTERVAL, update, count_steps,
                   count_checkpoints, running_episode_stats, rollouts_step,
                   agentUpdates, checkpoints, sinceDone, step_infos,
                   window_episode_stats, deltas, snapshots>>
    /\ UNCHANGED <<evalVars, options, extractVars>>

\* masks: [[0.0] if done else [1.0] for done in dones]
Masks(ds) == [i \in DOMAIN ds |-> IF ds[i] THEN 0 ELSE 1]

\* current_episode_reward += rewards
AddRewards(cer, rs) == [i \in DOMAIN cer |-> cer[i] + rs[i]]

\* running_episode_stats["reward"] += (1 - masks) * current_episode_reward
\* running_episode_stats["count"] += 1 - masks
UpdateStats(stats, cer, masks) ==
    [stats EXCEPT
        !.count = [i \in DOMAIN cer |-> stats.count[i] + (1 - masks[i])],
        !.reward = [i \in DOMAIN cer |->
                       stats.reward[i] + (1 - masks[i]) * cer[i]]]

RECURSIVE ExtractedValues(_, _, _)
\* _extract_scalars_from_infos: results[k], the values extracted under key
\* k from the infos of environments 0 .. n - 1, in that order
ExtractedValues(infos_, k, n) ==
    IF n = 0 THEN <<>>
    ELSE LET here == {q \in extract_scalars_from_info(infos_[n - 1]).result :
                         q[1] = k}
         IN  ExtractedValues(infos_, k, n - 1) \o
             (IF here = {} THEN <<>> ELSE <<(CHOOSE q \in here : TRUE)[2]>>)

\* the keys of the dictionary _extract_scalars_from_infos returns
ExtractedKeys(infos_) ==
    UNION {{q[1] : q \in extract_scalars_from_info(infos_[i]).result} :
              i \in DOMAIN infos_}

\* the exception a step raises while it folds the infos in, or "none":
\* float() inside the extraction, or tensors of shapes (n, 1) and
\* (len(v), 1) that do not broadcast
MetricsError(infos_) ==
    IF \E i \in DOMAIN infos_ :
           extract_scalars_from_info(infos_[i]).error # "none"
    THEN "TypeError"
    ELSE IF \E k \in ExtractedKeys(infos_) :
                Len(ExtractedValues(infos_, k, NumEnvs)) \notin {1, NumEnvs}
    THEN "RuntimeError"
    ELSE "none"

\* row i of v broadcast to one row per environment
Broadcast(v, i) == IF Len(v) = 1 THEN v[1] ELSE v[i + 1]

\* variant of InitMetric: the accumulator is created anew at every step
InitMetric_Always(stats, k) == [i \in DOMAIN stats.count |-> 0]

\* `if k not in running_episode_stats:
\*      running_episode_stats[k] = torch.zeros_like(...["count"])`
InitMetric(stats, k) ==
    IF k \in DOMAIN stats THEN stats[k] ELSE [i \in DOMAIN stats.count |-> 0]

\* the loop of lines 243-252: running_episode_stats[k] += (1 - masks) * v
AddMetrics(stats, infos_, masks) ==
    LET keys == ExtractedKeys(infos_)
    IN  [x \in DOMAIN stats \cup keys |->
            IF x \in keys
            THEN LET acc == InitMetric(stats, x)
                     v == ExtractedValues(infos_, x, NumEnvs)
                 IN  [i \in DOMAIN masks |->
                         acc[i] + (1 - masks[i]) * Broadcast(v, i)]
            ELSE stats[x]]

\* variant of MaskRewards: the running reward is not reset at a done
MaskRewards_NoReset(cer, masks) == cer

\* current_episode_reward *= masks
MaskRewards(cer, masks) == [i \in DOMAIN cer |-> cer[i] * masks[i]]

\* what the environments of a kind may return for one step
StepRewards(kind) ==
    IF kind \in {"plain", "instrumented"} THEN {[i \in TrainEnvs |-> 1]}
    ELSE [TrainEnvs -> TrainRewards]
StepDones(kind) ==
    IF kind = "plain" THEN {[i \in TrainEnvs |-> FALSE]}
    ELSE [TrainEnvs -> BOOLEAN]
\* an instrumented environment reports, on some steps, a numeric metric
\* next to fields that are not scalars; the others report none
StepInfos(kind) ==
    IF kind = "instrumented"
    THEN [TrainEnvs ->
             {<<Item("scene", "string", 0)>>}
                 \cup {<<Item("scene", "string", 0),
                         Item("distance", "number", n)>> :
                           n \in 1 .. MaxMetric}]
    ELSE {[i \in TrainEnvs |-> <<>>]}

\* variant of AfterStepFailure: the failed step is caught and tried again
AfterStepFailure_Retry == "collect"

\* where train() is after envs.step raised: nothing catches the exception
AfterStepFailure == "raised"

\* variant of DeltaSteps: a collected step counts once, whatever the
\* number of environments
DeltaSteps_One(n) == 1

\* delta_steps: _collect_rollout_step returns self.envs.num_envs
DeltaSteps(n) == n

\* one pass of `for step in range(ppo_cfg.num_steps)`: _collect_rollout_step
CollectRolloutStep ==
    /\ pc = "collect"
    /\ step < num_steps
    /\ vecSteps < (IF trainEnvKind = "instrumented" THEN MaxMetricSteps
                                                     ELSE MaxTrainSteps)
    /\ vecSteps' = vecSteps + 1
    /\ \E raises \in BOOLEAN :
       IF raises
       THEN /\ pc' = AfterStepFailure
            /\ error' = "EnvStepError"
            /\ trainCalls' = Append(trainCalls, "step")
            /\ UNCHANGED <<rewards, dones, running_episode_stats,
                           current_episode_reward, sinceDone, step_infos,
                           rollouts_step, count_steps, step>>
       ELSE \E rs \in StepRewards(trainEnvKind),
               ds \in StepDones(trainEnvKind),
               is \in StepInfos(trainEnvKind) :
            LET masks == Masks(ds)
                cer == AddRewards(current_episode_reward, rs)
                stats == UpdateStats(running_episode_stats, cer, masks)
                failure == MetricsError(is)
            IN  /\ rewards' = rs
                /\ dones' = ds
                /\ step_infos' = is
                /\ sinceDone' = [i \in TrainEnvs |->
                                    IF ds[i] THEN <<>>
                                    ELSE Append(sinceDone[i], rs[i])]
                /\ IF failure # "none"
                   THEN /\ pc' = "raised"
                        /\ error' = failure
                        /\ running_episode_stats' = stats
                        /\ current_episode_reward' = cer
                        /\ trainCalls' = Append(trainCalls, "step")
                        /\ UNCHANGED <<rollouts_step, count_steps, step>>
                   ELSE /\ running_episode_stats' =
                               AddMetrics(stats, is, masks)
                        /\ current_episode_reward' = MaskRewards(cer, masks)
                        /\ trainCalls' = trainCalls \o <<"step", "insert">>
                        /\ rollouts_step' = rollouts_step + 1
                        /\ count_steps' = count_steps + DeltaSteps(num_envs)
                        /\ step' = step + 1
                        /\ UNCHANGED <<pc, error>>
    /\ UNCHANGED <<num_envs, resets, closes, NUM_UPDATES, num_steps,
                   CHECKPOINT_INTERVAL, update, count_checkpoints,
                   agentUpdates, checkpoints, lr_epoch, lr_factor, clip_param,
                   window_episode_stats, deltas, snapshots>>
    /\ UNCHANGED <<evalVars, options, extractVars>>

\* variant of UpdateAgentCalls: the window is reset before the optimizer runs
UpdateAgentCalls_ResetFirst ==
    <<"get_value", "compute_returns", "after_update", "update">>

\* the calls of _update_agent, in order
UpdateAgentCalls == <<"get_value", "compute_returns", "update", "after_update">>

\* _update_agent, once the for loop over the steps is exhausted
UpdateAgent ==
    /\ pc = "collect"
    /\ step = num_steps
    /\ agentUpdates' = agentUpdates + 1
    /\ rollouts_step' = 0
    /\ trainCalls' = trainCalls \o UpdateAgentCalls
    /\ pc' = "report"
    /\ UNCHANGED <<error, current_episode_reward, rewards, dones, num_envs,
                   resets, closes, vecSteps, NUM_UPDATES, num_steps,
                   CHECKPOINT_INTERVAL, update, step, count_steps,
                   count_checkpoints, running_episode_stats, checkpoints,
                   sinceDone, step_infos, lr_epoch, lr_factor, clip_param,
                   window_episode_stats, deltas, snapshots>>
    /\ UNCHANGED <<evalVars, options, extractVars>>
\* tensor.sum() over the environments
RECURSIVE SumEnvs(_, _)
SumEnvs(t, envs) ==
    IF envs = {} THEN 0
    ELSE LET i == CHOOSE j \in envs : TRUE
         IN  t[i] + SumEnvs(t, envs \ {i})

\* variant of Snapshot: the live tensors are appended, not copies of them
Snapshot_NoClone(stats) == [ref |-> TRUE, val |-> stats]

\* `v.clone()`: an entry of the window that no later update of v changes
Snapshot(stats) == [ref |-> FALSE, val |-> stats]

\* the tensors an entry of the window holds, `live` being the accumulators
Deref(entry, live) == IF entry.ref THEN live ELSE entry.val

\* deque(maxlen=reward_window_size).append
WindowPush(w, entry, maxlen) ==
    IF Len(w) < maxlen THEN Append(w, entry) ELSE Append(Tail(w), entry)

\* window_episode_stats[k]: the window is kept as one deque per key, each
\* created at the first push of its key, so the deque of k holds the
\* snapshots pushed since k entered running_episode_stats
WindowOf(w, k) == SelectSeq(w, LAMBDA entry : k \in DOMAIN entry.val)

\* variant of Delta: the newest snapshot alone, whatever the window holds
Delta_NewestOnly(w, live, k) ==
    SumEnvs(Deref(w[Len(w)], live)[k], TrainEnvs)

\* `(v[-1] - v[0]).sum().item() if len(v) > 1 else v[0].sum().item()`
Delta(w, live, k) ==
    IF Len(w) > 1
    THEN SumEnvs([i \in TrainEnvs |-> Deref(w[Len(w)], live)[k][i]
                                       - Deref(w[1], live)[k][i]], TrainEnvs)
    ELSE SumEnvs(Deref(w[1], live)[k], TrainEnvs)

\* variant of GuardCount: the count delta is used as it is
GuardCount_None(c) == c

\* `deltas["count"] = max(deltas["count"], 1.0)`
GuardCount(c) == IF c > 1 THEN c ELSE 1

\* variant of CheckpointDue: no checkpoint at update 0
CheckpointDue_SkipsFirst(u, interval) == u > 0 /\ u % interval = 0

\* `if update % self.config.CHECKPOINT_INTERVAL == 0:`
CheckpointDue(u, interval) == u % interval = 0

\* the rest of an update: the snapshot, the reported deltas, the checkpoint
EndOfUpdate ==
    /\ pc = "report"
    /\ LET w == WindowPush(window_episode_stats,
                           Snapshot(running_episode_stats),
                           reward_window_size)
       IN  /\ window_episode_stats' = w
           /\ deltas' =
                  [reward |-> Delta(w, running_episode_stats, "reward"),
                   count |-> GuardCount(
                                 Delta(w, running_episode_stats, "count"))]
    /\ snapshots' = Append(snapshots, running_episode_stats)
    /\ IF CheckpointDue(update, CHECKPOINT_INTERVAL)
       THEN /\ checkpoints' = Append(checkpoints,
                                     [seq |-> count_checkpoints,
                                      step |-> count_steps,
                                      update |-> update])
            /\ count_checkpoints' = count_checkpoints + 1
            /\ trainCalls' = trainCalls \o <<"snapshot", "checkpoint">>
       ELSE /\ UNCHANGED <<checkpoints, count_checkpoints>>
            /\ trainCalls' = Append(trainCalls, "snapshot")
    /\ update' = update + 1
    /\ pc' = "for_update"
    /\ UNCHANGED <<error, current_episode_reward, rewards, dones, num_envs,
                   resets, closes, vecSteps, NUM_UPDATES, num_steps,
                   CHECKPOINT_INTERVAL, step, count_steps,
                   running_episode_stats, rollouts_step, agentUpdates,
                   sinceDone, step_infos, lr_epoch, lr_factor, clip_param>>
    /\ UNCHANGED <<evalVars, options, extractVars>>

\* the state train() is entered in, for the configurations explored
TrainStart ==
    /\ pc = "train"
    /\ error = "none"
    /\ current_episode_reward = [i \in TrainEnvs |-> 0]
    /\ rewards = [i \in TrainEnvs |-> 0]
    /\ dones = [i \in TrainEnvs |-> FALSE]
    /\ num_envs = 0
    /\ resets = 0
    /\ closes = 0
    /\ vecSteps = 0
    /\ EvalLocalsInit
    /\ TrainLocalsInit
    /\ ExtractIdle
    /\ NUM_UPDATES \in 0 .. MaxUpdates
    /\ num_steps \in 1 .. MaxNumSteps
    /\ reward_window_size \in 1 .. MaxWindowSize

\* training from scratch, without decay and with a checkpoint per update,
\* in a varied environment
TrainInit ==
    /\ TrainStart
    /\ trainEnvKind = "varied"
    /\ LOAD = "none"
    /\ CHECKPOINT_INTERVAL = 1
    /\ use_linear_lr_decay = FALSE
    /\ use_linear_clip_decay = FALSE

\* every setting of the options, in a plain environment
TrainOptionsInit ==
    /\ TrainStart
    /\ trainEnvKind = "plain"
    /\ LOAD \in LoadValues
    /\ CHECKPOINT_INTERVAL \in 1 .. MaxCheckpointInterval
    /\ use_linear_lr_decay \in BOOLEAN
    /\ use_linear_clip_decay \in BOOLEAN

\* training from scratch, for the largest number of updates and with the
\* largest window, in an environment that reports a metric
TrainMetricsInit ==
    /\ TrainStart
    /\ NUM_UPDATES = MaxUpdates
    /\ reward_window_size = MaxWindowSize
    /\ trainEnvKind = "instrumented"
    /\ LOAD = "none"
    /\ CHECKPOINT_INTERVAL = 1
    /\ use_linear_lr_decay = FALSE
    /\ use_linear_clip_decay = FALSE

TrainNext ==
    \/ Train_Setup
    \/ ForUpdate
    \/ CollectRolloutStep
    \/ UpdateAgent
    \/ EndOfUpdate

SpecTrain == TrainInit /\ [][TrainNext]_vars

SpecTrainOptions == TrainOptionsInit /\ [][TrainNext]_vars

SpecTrainMetrics == TrainMetricsInit /\ [][TrainNext]_vars

(***************************************************************************)
(* Properties                                                              *)
(***************************************************************************)
\* the single-environment act calls among the calls of an iteration
ActCalls(cs) == SelectSeq(cs, LAMBDA c : c \notin {"reset", "step", "write"})
\* the environment calls among the calls of an iteration
EnvCalls(cs) == SelectSeq(cs, LAMBDA c : c # "write")

RECURSIVE SumSeq(_)
SumSeq(q) == IF q = <<>> THEN 0 ELSE Head(q) + SumSeq(Tail(q))

\* occurrences of x in q
Count(q, x) == Len(SelectSeq(q, LAMBDA y : y = x))

\* a step of a variant's loop from the loop condition to the flush test
IterationOf(v) == pc = "while" /\ variant = v /\ step_count' = step_count + 1

\* C1: with a target of N >= 1 episodes the loop stops once N artifacts are
\* written: no further iteration is running with N artifacts on disk, and
\* no more than N artifacts are ever written.
C1_StopsAfterNWrites ==
    (variant # "none" /\ TEST_EPISODE_COUNT >= 1) =>
        /\ Len(artifacts) <= TEST_EPISODE_COUNT
        /\ (pc = "flush" => Len(artifacts) < TEST_EPISODE_COUNT)

\* C2: a collected step adds, for each environment whose done flag is set, 1
\* to its count and the sum of its rewards since its previous done (this
\* step's included) to its reward, and leaves its running reward at zero;
\* for the other environments, and in every other step of train(), both
\* accumulators are unchanged.
C2_EpisodeAccounting ==
    [][IF pc = "collect" /\ step' = step + 1
       THEN \A i \in TrainEnvs :
              IF dones'[i]
              THEN /\ running_episode_stats'.count[i] =
                          running_episode_stats.count[i] + 1
                   /\ running_episode_stats'.reward[i] =
                          running_episode_stats.reward[i]
                          + SumSeq(sinceDone[i]) + rewards'[i]
                   /\ current_episode_reward'[i] = 0
              ELSE /\ running_episode_stats'.count[i] =
                          running_episode_stats.count[i]
                   /\ running_episode_stats'.reward[i] =
                          running_episode_stats.reward[i]
       ELSE running_episode_stats' = running_episode_stats]_vars

\* env 0 finished an episode of two steps while env 1 is inside its first
C2_Witness ==
    /\ running_episode_stats.count[0] = 1
    /\ running_episode_stats.reward[0] = 3
    /\ running_episode_stats.count[1] = 0
    /\ Len(sinceDone[1]) = 2
    /\ current_episode_reward[0] = 0

\* C3: an OBCOV iteration whose first step is non-terminal with reward 1
\* issues exactly open, take, put, close, whatever open and take return,
\* and appends its step index to obj_cov_step; any other iteration issues
\* no act call.
C3_ObcovProbe ==
    [][IterationOf("OBCOV") =>
         IF ~first'.done /\ first'.reward = 1
         THEN /\ ActCalls(calls') = <<"open", "take", "put", "close">>
              /\ obj_cov_step' = Append(obj_cov_step, step_count')
         ELSE /\ ActCalls(calls') = <<>>
              /\ obj_cov_step' = obj_cov_step]_vars

\* the probe ran at the second step although open and take both failed
C3_Witness ==
    /\ variant = "OBCOV" /\ pc = "flush"
    /\ first = [reward |-> 1, done |-> FALSE]
    /\ ~actOk.open /\ ~actOk.take
    /\ step_count = 2
    /\ obj_cov_step = <<2>>
    /\ Len(calls) = 6

\* C4: the E2E block issues no act call: one reset, then one step per
\* iteration and nothing else.
C4_E2ENoAct ==
    variant = "E2E" =>
        /\ ActCalls(calls) = <<>>
        /\ resets = 1
        /\ vecSteps = step_count
        /\ EnvCalls(calls) = IF step_count = 0 THEN <<"reset">> ELSE <<"step">>

\* the third E2E iteration logged an event after an episode was flushed
C4_Witness ==
    /\ variant = "E2E" /\ pc = "flush"
    /\ step_count = 3
    /\ Len(artifacts) = 1
    /\ action_list = <<"open">>

\* C5: an E2E iteration logs an open event iff the step is non-terminal,
\* successful, the sampled action is open (index 7) and the reward is 1; a
\* take event iff it is non-terminal, successful, the sampled action is take
\* (index 5) and the reward is 2 or 5; otherwise nothing.  Every "open" of
\* action_list is matched by an entry of obj_cov_step.
C5_E2EEvents ==
    /\ [](variant = "E2E" =>
            /\ Count(action_list, "open") = Len(obj_cov_step)
            /\ Count(action_list, "take") = Len(obj_pick_step)
            /\ \A j \in 1 .. Len(artifacts) :
                 Count(artifacts[j].data.action_list, "open")
                     = Len(artifacts[j].data.obj_cov_step))
    /\ [][IterationOf("E2E") =>
            LET k == step_count'
                live == ~first'.done /\ infos'.success
                openEv == live /\ actions' = 7 /\ first'.reward = 1
                takeEv == live /\ actions' = 5 /\ first'.reward \in {2, 5}
                name == IF openEv THEN "open" ELSE "take"
            IN  IF openEv \/ takeEv
                THEN /\ action_list' = Append(action_list, name)
                     /\ Len(observation_list') = Len(observation_list) + 1
                     /\ Len(metadata_list') = Len(metadata_list) + 1
                     /\ obj_cov_step' = IF openEv THEN Append(obj_cov_step, k)
                                                  ELSE obj_cov_step
                     /\ obj_pick_step' = IF takeEv THEN Append(obj_pick_step, k)
                                                   ELSE obj_pick_step
                ELSE UNCHANGED <<action_list, observation_list, metadata_list,
                                 obj_cov_step, obj_pick_step>>]_vars

\* an open event at step 1 and a take event at step 3 of the same episode
C5_Witness ==
    /\ variant = "E2E" /\ pc = "flush"
    /\ action_list = <<"open", "take">>
    /\ obj_cov_step = <<1>>
    /\ obj_pick_step = <<3>>
    /\ Len(observation_list) = 2 /\ Len(metadata_list) = 2

\* the scripted calls of the HYBRID probe among the calls of an iteration
ProbeCalls(cs) == SelectSeq(cs, LAMBDA c : c \in {"take", "put", "close"})
\* the calls of the stall recovery among the calls of an iteration
Maneuver(cs) == SelectSeq(cs, LAMBDA c : c \in {"tright", "forward"})

IsPrefix(a, b) == Len(a) <= Len(b) /\ SubSeq(b, 1, Len(a)) = a

\* C6: a HYBRID iteration whose step is non-terminal and successful issues
\* take, put, close once each, in that order, and logs "take" with the step
\* index iff the take succeeded; any other iteration issues none of them.
C6_HybridProbe ==
    [][IterationOf("HYBRID") =>
         IF ~first'.done /\ infos'.success
         THEN /\ ProbeCalls(calls') = <<"take", "put", "close">>
              /\ obj_pick_step' = IF actOk'.take
                                  THEN Append(obj_pick_step, step_count')
                                  ELSE obj_pick_step
              /\ Count(action_list', "take") =
                     Count(action_list, "take") + (IF actOk'.take THEN 1 ELSE 0)
         ELSE /\ ProbeCalls(calls') = <<>>
              /\ obj_pick_step' = obj_pick_step
              /\ Count(action_list', "take") = Count(action_list, "take")]_vars

\* C7: the stall recovery fires in a HYBRID iteration iff the run has taken
\* at least five steps and the five most recent ones reported the same
\* (action, success) pair, done or not; it issues 1 to 3 tright and then
\* exactly 4 forward, right after the step.
C7_StallRecovery ==
    [][IterationOf("HYBRID") =>
         LET rec == Maneuver(calls')
             n == Count(rec, "tright")
         IN  /\ (rec # <<>>) <=> (vecSteps' >= 5 /\ runLength' >= 5)
             /\ rec # <<>> =>
                  /\ n \in 1 .. 3
                  /\ rec = [i \in 1 .. (n + 4) |->
                               IF i <= n THEN "tright" ELSE "forward"]
                  /\ SubSeq(calls', 2, 1 + Len(rec)) = rec]_vars

\* the recovery fires for the second time in a row, at the sixth step, after
\* an episode boundary, with the longest maneuver
C7_Witness ==
    /\ variant = "HYBRID" /\ pc = "flush"
    /\ step_count = 6 /\ runLength = 6
    /\ Len(artifacts) = 1
    /\ Count(calls, "tright") = 3 /\ Count(calls, "forward") = 4

C9_FailedActs ==
    [][/\ (IterationOf("HYBRID") /\ Count(calls', "take") > 0
             /\ ~actOk'.take) =>
            /\ ProbeCalls(calls') = <<"take", "put", "close">>
            /\ Count(action_list', "take") = Count(action_list, "take")
            /\ obj_pick_step' = obj_pick_step
            /\ Len(observation_list') - Len(observation_list) =
                   Len(action_list') - Len(action_list)
            /\ Len(metadata_list') - Len(metadata_list) =
                   Len(action_list') - Len(action_list)
            /\ Len(action_list') - Len(action_list) =
                   Count(action_list', "open") - Count(action_list, "open")
            /\ pc' = "flush" /\ error' = "none"
            /\ num_envs' = num_envs /\ stats_episodes' = stats_episodes
       /\ (IterationOf("OBCOV") /\ Count(calls', "open") > 0) =>
            /\ ActCalls(calls') = <<"open", "take", "put", "close">>
            /\ Count(action_list', "open") =
                   Count(action_list, "open") + (IF actOk'.open THEN 1 ELSE 0)
            /\ Count(action_list', "take") =
                   Count(action_list, "take") + (IF actOk'.take THEN 1 ELSE 0)
            /\ Len(action_list') - Len(action_list) =
                   (IF actOk'.open THEN 1 ELSE 0) + (IF actOk'.take THEN 1 ELSE 0)
            /\ Len(observation_list') - Len(observation_list) =
                   Len(action_list') - Len(action_list)
            /\ Len(metadata_list') - Len(metadata_list) =
                   Len(action_list') - Len(action_list)
            /\ (~actOk'.take => obj_pick_step' = obj_pick_step)
            /\ pc' = "flush" /\ error' = "none"
            /\ num_envs' = num_envs /\ stats_episodes' = stats_episodes]_vars

\* a HYBRID probe whose take failed, in the second iteration
C9_Witness ==
    /\ variant = "HYBRID" /\ pc = "flush"
    /\ step_count = 2
    /\ ~actOk.take
    /\ calls = <<"step", "take", "put", "close">>
    /\ action_list = <<>> /\ obj_pick_step = <<>>

\* C10: train() runs NUM_UPDATES updates of num_steps steps each and then
\* closes the environments, once: the environments are closed only when all
\* the updates are done, and train() ends with them closed (in a run in
\* which no environment step fails).
C10_TrainRunsAndCloses ==
    error # "EnvStepError" =>
        /\ closes <= 1
        /\ closes = 1 => agentUpdates = NUM_UPDATES
        /\ pc \in {"returned", "raised"} =>
             /\ closes = 1
             /\ agentUpdates = NUM_UPDATES
             /\ vecSteps = NUM_UPDATES * num_steps

\* n environment steps, each followed by its insertion
StepsInserted(n) == [i \in 1 .. 2 * n |-> IF i % 2 = 1 THEN "step" ELSE "insert"]

\* tensor total over the environments
Total(t) == SumSeq([j \in 1 .. NumEnvs |-> t[j - 1]])

Min(a, b) == IF a < b THEN a ELSE b
Max(a, b) == IF a > b THEN a ELSE b

\* C11: in every update the calls are num_steps steps, each followed by its
\* insertion, then get_value, compute_returns, the optimizer update and
\* after_update, once each; while collecting there are only steps and
\* insertions, and one optimizer update is made per update.
C11_UpdateOrder ==
    error = "none" =>
        /\ pc = "collect" => trainCalls = StepsInserted(step)
        /\ pc = "report" =>
             trainCalls = StepsInserted(num_steps) \o
                 <<"get_value", "compute_returns", "update", "after_update">>
        /\ (pc \in {"for_update", "returned"} /\ update > 0) =>
             /\ SubSeq(trainCalls, 1, 2 * num_steps + 4) =
                    StepsInserted(num_steps) \o
                    <<"get_value", "compute_returns", "update", "after_update">>
             /\ Count(trainCalls, "insert") = num_steps
             /\ Count(trainCalls, "after_update") = 1
        /\ agentUpdates = update + (IF pc = "report" THEN 1 ELSE 0)

\* the first update, of two steps, has just called after_update
C11_Witness ==
    /\ pc = "report" /\ error = "none"
    /\ num_steps = 2
    /\ Len(trainCalls) = 8
    /\ trainCalls[8] = "after_update"

\* C12: the checkpoints written are those of the updates u with
\* u mod CHECKPOINT_INTERVAL = 0, update 0 included, and the k-th one
\* written carries sequence number k, counted from 0.
C12_Checkpoints ==
    /\ Len(checkpoints) =
           Cardinality({u \in 0 .. (update - 1) : u % CHECKPOINT_INTERVAL = 0})
    /\ count_checkpoints = Len(checkpoints)
    /\ \A k \in 1 .. Len(checkpoints) :
         /\ checkpoints[k].seq = k - 1
         /\ checkpoints[k].update = (k - 1) * CHECKPOINT_INTERVAL

\* two updates done with an interval of 2: update 1 wrote no checkpoint
C12_Witness ==
    /\ CHECKPOINT_INTERVAL = 2
    /\ update = 2
    /\ Len(checkpoints) = 1
    /\ checkpoints[1].seq = 0

\* C13: with linear clip decay the clip parameter in force during update u
\* is the configured one times (1 - u / NUM_UPDATES): the configured one at
\* u = 0, never negative and never increasing; without the decay train()
\* leaves the clip parameter alone.
C13_ClipDecay ==
    /\ [](/\ (use_linear_clip_decay /\ pc \in {"collect", "report"}) =>
               /\ clip_param.num * NUM_UPDATES =
                      (NUM_UPDATES - update) * clip_param.den
               /\ clip_param.num >= 0 /\ clip_param.den > 0
               /\ update = 0 => clip_param.num = clip_param.den
          /\ ~use_linear_clip_decay => clip_param = One)
    /\ [][clip_param'.num * clip_param.den
              <= clip_param.num * clip_param'.den]_vars

\* the second of two updates runs at half the configured clip parameter
C13_Witness ==
    /\ use_linear_clip_decay
    /\ pc = "collect" /\ update = 1
    /\ NUM_UPDATES = 2
    /\ clip_param.num * 2 = clip_param.den

\* C14: with both decays enabled the learning-rate factor in force during
\* update u equals the clip factor of that update, 1 - u / NUM_UPDATES,
\* so that update 0 runs at the full learning rate.
C14_LrMatchesClip ==
    (use_linear_lr_decay /\ use_linear_clip_decay /\ error = "none"
        /\ pc \in {"collect", "report"}) =>
        /\ FracEq(lr_factor, clip_param)
        /\ lr_factor.num * NUM_UPDATES = (NUM_UPDATES - update) * lr_factor.den
        /\ update = 0 => lr_factor.num = lr_factor.den

\* C15: the count delta an update reports, the divisor of the metrics, is
\* at least 1.
C15_CountAtLeastOne ==
    [][pc = "report" => deltas'.count >= 1]_vars

\* the second update reports a window in which no episode finished
C15_Witness ==
    /\ Len(snapshots) = 2
    /\ reward_window_size = 2
    /\ Total(snapshots[2].count) = Total(snapshots[1].count)
    /\ Total(snapshots[1].count) > 0
    /\ deltas.count = 1

\* C16: the reward an update reports is the newest snapshot minus the oldest
\* one held, totalled over the environments, when more than one snapshot is
\* held, and the total of the single snapshot otherwise, over the count
\* obtained the same way and raised to at least 1.
C16_ReportedReward ==
    [][pc = "report" =>
         LET p == Len(snapshots')
             held == Min(p, reward_window_size)
             newest == snapshots'[p]
             oldest == snapshots'[p - held + 1]
             diff(k) == IF held > 1 THEN Total(newest[k]) - Total(oldest[k])
                                    ELSE Total(newest[k])
         IN  /\ p = Len(snapshots) + 1
             /\ newest = running_episode_stats
             /\ deltas'.reward = diff("reward")
             /\ deltas'.count = Max(diff("count"), 1)]_vars

\* the second update reports the difference of two snapshots, which is not
\* the total of the newest
C16_Witness ==
    /\ Len(snapshots) = 2
    /\ reward_window_size = 2
    /\ Total(snapshots[1].reward) = 1
    /\ Total(snapshots[2].reward) = 3
    /\ deltas = [reward |-> 2, count |-> 1]

C18_AggregateGuarded ==
    variant # "none" => error # "ZeroDivisionError"

\* C19: eval() does not fail when the configured checkpoint is absent: it
\* goes on to reset the environments and run the loop.
C19_EvalToleratesAbsentCheckpoint ==
    (selectors # {} /\ LOAD # "present") =>
        /\ error \notin {"AttributeError", "FileNotFoundError"}
        /\ resets >= 1

\* C20: once an environment step has raised, train() makes no further
\* environment step, insertion, optimizer update, snapshot or checkpoint:
\* the run is over.
C20_StepFailureIsFatal ==
    /\ [](error = "EnvStepError" => pc = "raised")
    /\ [][error = "EnvStepError" =>
            UNCHANGED <<vecSteps, rollouts_step, agentUpdates,
                        window_episode_stats, snapshots, checkpoints,
                        trainCalls>>]_vars

\* the third environment step, in the second update, raised
C20_Witness ==
    /\ error = "EnvStepError"
    /\ vecSteps = 3
    /\ agentUpdates = 1
    /\ Len(checkpoints) = 1
    /\ Count(trainCalls, "insert") = 0

\* C21: an OBCOV iteration that runs the probe issues, after close, exactly
\* one more envs.step, with the action vector sampled at its start, and the
\* rest of the iteration (flush test, reward accumulation, next policy
\* input) works with what that second step returned; an iteration without
\* a probe issues exactly one envs.step.
C21_ReStep ==
    /\ [][IterationOf("OBCOV") =>
            IF OBCOV_Probe(first'.done, first'.reward)
            THEN /\ calls' = <<"step", "open", "take", "put", "close",
                               "step">>
                 /\ vecSteps' = vecSteps + 2
                 /\ reStep'.action = actions'
                 /\ observations' = ReStepObs(step_count')
                 /\ rewards'[0] = reStep'.reward
                 /\ dones'[0] = reStep'.done
            ELSE /\ Count(calls', "step") = 1
                 /\ vecSteps' = vecSteps + 1
                 /\ reStep' = NoReStep]_vars
    /\ [][(pc = "flush" /\ variant = "OBCOV" /\ reStep # NoReStep) =>
            /\ (Len(artifacts') = Len(artifacts) + 1) <=> reStep.done
            /\ current_episode_reward'[0] =
                   current_episode_reward[0] + reStep.reward
            /\ prev_obs' = ReStepObs(step_count)]_vars

\* a probe was triggered by reward 1 and the second step of the same open
\* action returned reward 0 and ended the episode
C21_Witness ==
    /\ variant = "OBCOV" /\ pc = "flush"
    /\ first = [reward |-> 1, done |-> FALSE]
    /\ reStep = [action |-> 7, reward |-> 0, done |-> TRUE]
    /\ rewards[0] = 0 /\ dones[0]

\* C22: a HYBRID iteration that logs an open event (non-terminal step,
\* success reported, sampled action open, reward 1) completes without error
\* and appends to metadata_list the prev/next metadata of that very step of
\* environment 0, also when no scripted act call has been made yet.
C22_OpenEventMetadata ==
    [][(/\ IterationOf("HYBRID")
        /\ ~first'.done /\ infos'.success
        /\ HYBRID_OpenEvent(get_action(actions', act_to_idx_HYBRID),
                            first'.reward)) =>
           /\ error' = "none"
           /\ Len(metadata_list') > Len(metadata_list)
           /\ metadata_list'[Len(metadata_list) + 1] =
                  MetadataPair(StepInfo(step_count'))]_vars

RECURSIVE Fields(_, _)
\* the fields among the first n items of an info dictionary, nested ones
\* included, each with the keys that lead to it
Fields(info_, n) ==
    IF n = 0 THEN {}
    ELSE LET item == info_[n]
         IN  Fields(info_, n - 1) \cup
             (IF item.kind = "dict"
              THEN {[path |-> <<item.key>> \o f.path, kind |-> f.kind,
                     num |-> f.num] : f \in Fields(item.sub, Len(item.sub))}
              ELSE {[path |-> <<item.key>>, kind |-> item.kind,
                     num |-> item.num]})

RECURSIVE Join(_)
\* ".".join(keys)
Join(keys) ==
    IF Len(keys) = 1 THEN keys[1] ELSE keys[1] \o "." \o Join(Tail(keys))

\* a key or dotted path of the blacklist lies on the path
Blacklisted(path) ==
    \E i \in 1 .. Len(path) : \E j \in i .. Len(path) :
        Join(SubSeq(path, i, j)) \in METRICS_BLACKLIST

\* the numeric fields of an info dictionary that are not blacklisted
NumericFields(info_) ==
    {<<Join(f.path), f.num>> :
        f \in {g \in Fields(info_, Len(info_)) :
                  g.kind = "number" /\ ~Blacklisted(g.path)}}

\* C23: _extract_scalars_from_info returns exactly the numeric scalar
\* fields of the info dictionary under their dotted paths, without the
\* blacklisted keys and paths; a string, a sequence of several elements, an
\* empty sequence or None is skipped and nothing is raised.
C23_ExtractScalars ==
    (pc # "extract" /\ extract_info # <<>>) =>
        /\ error = "none"
        /\ extract_result = NumericFields(extract_info)

\* the number environment i reported under the key in the latest step, or
\* 0 when its info holds no number under that key
Reported(is, i, k) ==
    LET at == {n \in 1 .. Len(is[i]) :
                  is[i][n].key = k /\ is[i][n].kind = "number"}
    IN  IF at = {} THEN 0 ELSE is[i][CHOOSE n \in at : TRUE].num

C25_OneAfterAnother ==
    /\ resets - closes \in {0, 1}
    /\ (pc = "returned" /\ selectors = {}) => (resets = 0 /\ vecSteps = 0)
    /\ (pc \in {"returned", "raised"} /\ LOAD = "present") =>
           (error = "none" /\ closes = Cardinality(selectors))

\* C26: every episode completion observed for environment 0 adds the
\* episode to stats_episodes: between iterations the record holds as many
\* episodes as there are distinct episode ids among the artifacts written.
C26_CompletedEpisodes ==
    (variant # "none" /\ pc = "while") =>
        Cardinality(stats_episodes) =
            Cardinality({artifacts[i].episode : i \in 1 .. Len(artifacts)})

\* C27: in a HYBRID iteration where the stall recovery and the probe both
\* fire, the calls are the vectorized step, then the whole recovery
\* maneuver, then take, put, close: every recovery call precedes the take,
\* and nothing is written before both groups are done.
C27_RecoveryBeforeProbe ==
    [][(/\ IterationOf("HYBRID")
        /\ Maneuver(calls') # <<>>
        /\ Count(calls', "take") > 0) =>
           /\ calls' = <<"step">> \o Maneuver(calls') \o ProbeCalls(calls')
           /\ Head(ProbeCalls(calls')) = "take"
           /\ pc' = "flush"
           /\ artifacts' = artifacts]_vars

\* the fifth step in a row reporting the same successful action: the
\* recovery turns twice and the probe's take fails
C27_Witness ==
    /\ variant = "HYBRID" /\ pc = "flush"
    /\ step_count = 5 /\ runLength = 5
    /\ infos.success /\ ~first.done
    /\ calls = <<"step", "tright", "tright", "forward", "forward",
                 "forward", "forward", "take", "put", "close">>

\* C28: in an OBCOV iteration every result of a vectorized step that is
\* non-terminal with reward 1 for environment 0, that of the second step
\* after a probe included, is followed within the iteration (so before the
\* next action is sampled) by a probe: one coverage index logged and one
\* open, take, put, close per such result.
C28_EveryRewardProbed ==
    [][IterationOf("OBCOV") =>
         LET firstHit == IF OBCOV_Probe(first'.done, first'.reward)
                         THEN 1 ELSE 0
             secondHit == IF /\ reStep' # NoReStep
                             /\ OBCOV_Probe(reStep'.done, reStep'.reward)
                          THEN 1 ELSE 0
         IN  /\ Count(calls', "open") = firstHit + secondHit
             /\ Count(calls', "close") = firstHit + secondHit
             /\ Len(obj_cov_step') =
                    Len(obj_cov_step) + firstHit + secondHit]_vars

\* C29: in OBCOV step_count advances on every envs.step call, the second
\* step after a probe included: it always equals the number of vectorized
\* steps issued, and an index appended to obj_cov_step or obj_pick_step is
\* the number of vectorized steps issued up to the step that triggered it.
C29_CounterCountsSteps ==
    /\ [](variant = "OBCOV" => step_count = vecSteps)
    /\ [][IterationOf("OBCOV") =>
            /\ Len(obj_cov_step') > Len(obj_cov_step) =>
                   obj_cov_step'[Len(obj_cov_step')] = vecSteps + 1
            /\ Len(obj_pick_step') > Len(obj_pick_step) =>
                   obj_pick_step'[Len(obj_pick_step')] = vecSteps + 1]_vars

\* C30: environment 0's running episode reward holds the rewards of the
\* vectorized steps of the episode under way and of no earlier episode:
\* over the rest of an iteration it gains the reward of every vectorized
\* step of the iteration (in OBCOV that of the step that triggered a probe
\* as well as that of the second step), and it restarts from zero when the
\* iteration observed done.
C30_EpisodeReward ==
    [][(pc = "flush" /\ pc' = "while") =>
         LET gained == first.reward +
                       (IF reStep # NoReStep THEN reStep.reward ELSE 0)
         IN  current_episode_reward'[0] =
                 IF dones[0] THEN 0
                 ELSE current_episode_reward[0] + gained]_vars

\* the latest call that changed the environment among the calls cs
LastEnvCall(cs) == EnvCalls(cs)[Len(EnvCalls(cs))]

\* C31: the observation the policy samples from at the start of an
\* iteration is the one returned by the latest environment-changing call
\* made so far: that call is the reset or a vectorized step, never a
\* scripted act call made after the observation was taken.
C31_FreshPolicyInput ==
    [][(IterationOf("E2E") \/ IterationOf("HYBRID") \/ IterationOf("OBCOV")) =>
         /\ LastEnvCall(calls) \in {"reset", "step"}
         /\ observations \in {StepObs(step_count), ReStepObs(step_count)}]_vars

\* C32: nothing is paused in any iteration: while a variant's loop runs the
\* number of active environments stays the configured one, and the running
\* reward, the rewards and the done flags keep one slot per environment.
C32_NothingPaused ==
    /\ [](variant # "none" =>
              /\ num_envs = NUM_PROCESSES
              /\ DOMAIN current_episode_reward = EvalEnvs
              /\ DOMAIN rewards = EvalEnvs
              /\ DOMAIN dones = EvalEnvs)
    /\ [][pc = "flush" => num_envs' = num_envs]_vars

\* two episodes have ended, each with an artifact, and the third step's
\* iteration is over with the environment still active
C32_Witness ==
    /\ variant = "E2E" /\ pc = "while"
    /\ step_count = 3
    /\ Len(artifacts) = 2
    /\ num_envs = 1

\* the three per-event lists of L have one entry per logged action
Aligned(L) ==
    /\ Len(L.observation_list) = Len(L.action_list)
    /\ Len(L.metadata_list) = Len(L.action_list)

\* C33: at the end of every iteration, and in every artifact written,
\* action_list, observation_list and metadata_list have the same length.
C33_ListsAligned ==
    /\ (variant # "none" /\ pc \in {"flush", "while"}) => Aligned(CurrentLists)
    /\ \A i \in 1 .. Len(artifacts) : Aligned(artifacts[i].data)

\* an E2E episode that logged an open and then a take was written out
C33_Witness ==
    /\ variant = "E2E"
    /\ Len(artifacts) = 1
    /\ artifacts[1].data.action_list = <<"open", "take">>
    /\ Len(artifacts[1].data.metadata_list) = 2

Increasing(q) == \A i \in 1 .. Len(q) - 1 : q[i] < q[i + 1]

RECURSIVE Logged(_, _)
\* the indices of one of the two index lists in the first n artifacts,
\* in the order they were written
Logged(n, list) ==
    IF n = 0 THEN <<>>
    ELSE Logged(n - 1, list) \o artifacts[n].data[list]

\* C35: step_count is not reset at an episode boundary, so the indices in
\* obj_cov_step and in obj_pick_step count the iterations of the whole
\* run: each list increases strictly within an artifact and from one
\* artifact to the next, up to the lists being filled now.
C35_IndicesOfTheRun ==
    /\ [](variant # "none" =>
              /\ Increasing(Logged(Len(artifacts), "obj_cov_step")
                                \o obj_cov_step \o <<step_count + 1>>)
              /\ Increasing(Logged(Len(artifacts), "obj_pick_step")
                                \o obj_pick_step \o <<step_count + 1>>))
    /\ [][pc = "flush" => step_count' = step_count]_vars

\* two OBCOV episodes of one iteration each, both with a probe
C35_Witness ==
    /\ variant = "OBCOV"
    /\ Len(artifacts) = 2
    /\ artifacts[1].data.obj_cov_step = <<1>>
    /\ artifacts[2].data.obj_cov_step = <<2>>
    /\ artifacts[2].data.obj_pick_step = <<2>>

\* C36: every observation pair an E2E iteration logs has as its
\* before-frame the observation environment 0 returned right before the
\* logged step, which on the first step is the one the reset returned.
C36_BeforeFrame ==
    [][(IterationOf("E2E")
        /\ Len(observation_list') > Len(observation_list)) =>
           LET pair == observation_list'[Len(observation_list')]
           IN  /\ pair[1] # NoneObs
               /\ pair = <<observations, observations'>>]_vars

\* C37: on a collected step, what is added to the accumulator of a metric
\* for an environment whose episode ended is the value extracted from that
\* environment's own info, nothing when its info holds no such value; this
\* also when only some of the infos hold the metric.
C37_OwnMetric ==
    [][(pc = "collect" /\ step' = step + 1) =>
           \A k \in DOMAIN running_episode_stats' \ {"count", "reward"} :
               \A i \in TrainEnvs :
                   LET before == IF k \in DOMAIN running_episode_stats
                                 THEN running_episode_stats[k][i] ELSE 0
                   IN  dones'[i] =>
                           running_episode_stats'[k][i] =
                               before + Reported(step_infos', i, k)]_vars

\* C38: after every update the windows of all tracked metrics have the
\* same length as the window of count, so that their oldest snapshots were
\* pushed at the same update; also for a metric that entered
\* running_episode_stats after the first update.
C38_WindowsAligned ==
    (pc = "for_update" /\ update > 0) =>
        \A k \in DOMAIN running_episode_stats :
            Len(WindowOf(window_episode_stats, k)) =
                Len(WindowOf(window_episode_stats, "count"))

\* C39: count_steps grows by num_envs with every collected step and by
\* nothing else, so at the end of update u, where the scalars are emitted
\* under it, it is (u + 1) * num_steps * num_envs, which grows strictly
\* with u, and that is the step count stored in the checkpoint of update u.
C39_CountSteps ==
    /\ [][IF pc = "collect" /\ step' = step + 1
          THEN count_steps' = count_steps + num_envs
          ELSE count_steps' = count_steps]_vars
    /\ [][update' = update + 1 =>
              /\ count_steps = (update + 1) * num_steps * num_envs
              /\ count_steps > update * num_steps * num_envs]_vars
    /\ [](\A i \in 1 .. Len(checkpoints) :
              checkpoints[i].step =
                  (checkpoints[i].update + 1) * num_steps * num_envs)

\* two updates of one step each in two environments: the second
\* checkpoint stores 4 steps
C39_Witness ==
    /\ num_steps = 1 /\ num_envs = 2
    /\ update = 2
    /\ Len(checkpoints) = 2
    /\ checkpoints[1].step = 2
    /\ checkpoints[2].step = 4
    /\ count_steps = 4

====
